---- MODULE Spec2Model ----
(***************************************************************************)
(* Model of configuration_tool.py (task-4): the Netmiko session life cycle *)
(* of connect_device / send_command / send_config / get_interface_brief /  *)
(* cli_main, and the template renderer render_interface_config.            *)
(*                                                                         *)
(* A Python string is a sequence of fragments.  A fragment is either one   *)
(* separator character (" ", "\n", ",") or an atomic piece of text, so     *)
(* that strip(), splitlines(), split(',') and "contains" are computed on   *)
(* the text and not assumed.                                               *)
(*                                                                         *)
(* Calls into netmiko / inventory_tool are outside the repository: each is *)
(* a nondeterministic choice between returning and raising an Exception.   *)
(***************************************************************************)
EXTENDS Integers, Sequences, FiniteSets, TLC

VARIABLES
    entry,        \* the function called: cli_main, send_config, get_interface_brief, render
    pc,           \* position in the running code
    retpc,        \* where connect_device returns to
    command,      \* --command option of cli_main
    config,       \* --config option of cli_main
    commands,     \* the commands argument of send_config
    device_data,  \* result of get_device_data
    conn_info,    \* result of get_conn_info
    sessions,     \* every session ConnectHandler established: "open" or "closed"
    cdconn,       \* local conn of connect_device (index into sessions, 0 = unbound)
    conn,         \* value connect_device returned (0 = None, -1 = not called)
    calls,        \* netmiko calls made so far, in order
    output,       \* local output of the running function
    result,       \* value send_config / get_interface_brief returned
    echo,         \* lines written by click.echo / print, in order
    exc,          \* exception in flight
    raised,       \* every exception raised so far and the handler that caught it
    action,       \* render_interface_config arguments
    interface,
    ip_address,
    subnet_mask,
    rendered      \* value render_interface_config returned

vars == << entry, pc, retpc, command, config, commands, device_data, conn_info,
           sessions, cdconn, conn, calls, output, result, echo, exc, raised,
           action, interface, ip_address, subnet_mask, rendered >>

sessionVars == << entry, retpc, command, config, commands, device_data, conn_info,
                  sessions, cdconn, conn, calls, output, result, echo, exc, raised >>

renderArgs == << action, interface, ip_address, subnet_mask >>

(***************************************************************************)
(* Bounds                                                                  *)
(***************************************************************************)
MaxLen == 2     \* longest value handed to render_interface_config
MaxCfg == 3     \* longest --config text, in fragments
MaxCmds == 2    \* longest commands list handed to send_config directly

(***************************************************************************)
(* Strings                                                                 *)
(***************************************************************************)
SeqsUpTo(S, n) == UNION { [1..k -> S] : k \in 0..n }

IsSpace(c) == c \in {" ", "\n", "\t"}

IsLineBreak(c) == c = "\n"

RECURSIVE LStrip(_)
LStrip(s) == IF s # <<>> /\ IsSpace(Head(s)) THEN LStrip(Tail(s)) ELSE s

RECURSIVE RStrip(_)
RStrip(s) ==
    IF s # <<>> /\ IsSpace(s[Len(s)]) THEN RStrip(SubSeq(s, 1, Len(s) - 1)) ELSE s

\* str.strip()
Strip(s) == RStrip(LStrip(s))

\* str.splitlines(): a final line break opens no further line
RECURSIVE SplitLines(_)
SplitLines(s) ==
    IF s = <<>> THEN <<>>
    ELSE IF \E i \in 1..Len(s) : IsLineBreak(s[i])
         THEN LET i == CHOOSE k \in 1..Len(s) :
                          /\ IsLineBreak(s[k])
                          /\ \A j \in 1..(k - 1) : ~IsLineBreak(s[j])
              IN  <<SubSeq(s, 1, i - 1)>> \o SplitLines(SubSeq(s, i + 1, Len(s)))
         ELSE <<s>>

\* str.split(','): always at least one piece, empty pieces kept
RECURSIVE Split(_)
Split(s) ==
    IF \E i \in 1..Len(s) : s[i] = ","
    THEN LET i == CHOOSE k \in 1..Len(s) :
                     /\ s[k] = ","
                     /\ \A j \in 1..(k - 1) : s[j] # ","
         IN  <<SubSeq(s, 1, i - 1)>> \o Split(SubSeq(s, i + 1, Len(s)))
    ELSE <<s>>

\* the fragment r occurs in the string s
Contains(s, r) == \E i \in 1..Len(s) : s[i] = r

RECURSIVE Concat(_)
Concat(ss) == IF ss = <<>> THEN <<>> ELSE Head(ss) \o Concat(Tail(ss))

(***************************************************************************)
(* render_interface_config                                                 *)
(***************************************************************************)
Lit(t) == [kind |-> "lit", v |-> t]
Var(n) == [kind |-> "var", v |-> n]

CreateTemplate ==
    << Lit("\n"),
       Lit("interface"), Lit(" "), Var("interface"), Lit("\n"),
       Lit("ip"), Lit(" "), Lit("address"), Lit(" "), Var("ip_address"),
       Lit(" "), Var("subnet"), Lit("\n"),
       Lit("no"), Lit(" "), Lit("shutdown"), Lit("\n") >>

DeleteTemplate ==
    << Lit("\n"),
       Lit("interface"), Lit(" "), Var("interface"), Lit("\n"),
       Lit("no"), Lit(" "), Lit("ip"), Lit(" "), Lit("address"), Lit("\n"),
       Lit("shutdown"), Lit("\n") >>

\* jinja2 drops one trailing newline of the template source (keep_trailing_newline
\* is off) and then writes the literal text and the values in order, unescaped
TemplateRender(template, config_vars) ==
    LET n   == Len(template)
        src == IF n > 0 /\ template[n] = Lit("\n")
               THEN SubSeq(template, 1, n - 1) ELSE template
    IN  Concat([i \in 1..Len(src) |->
                  IF src[i].kind = "lit" THEN <<src[i].v>> ELSE config_vars[src[i].v]])

CommandLines_NoStrip(rendered_config) ==
    SelectSeq(SplitLines(rendered_config), LAMBDA l : Strip(l) # <<>>)

\* [line.strip() for line in rendered_config.splitlines() if line.strip()]
CommandLines(rendered_config) ==
    LET lines == SplitLines(rendered_config)
    IN  [i \in 1..Len(SelectSeq(lines, LAMBDA l : Strip(l) # <<>>)) |->
            Strip(SelectSeq(lines, LAMBDA l : Strip(l) # <<>>)[i])]

render_interface_config(act, ifc, ip, mask) ==
    IF act = "create"
    THEN CommandLines(TemplateRender(CreateTemplate,
             [n \in {"interface", "ip_address", "subnet"} |->
                 IF n = "interface" THEN ifc ELSE IF n = "ip_address" THEN ip ELSE mask]))
    ELSE CommandLines(TemplateRender(DeleteTemplate,
             [n \in {"interface"} |-> ifc]))

(***************************************************************************)
(* Values of the session flow                                              *)
(***************************************************************************)
device_name == "R1"

NotGiven == [given |-> FALSE, text |-> <<>>]

Options(texts) == {NotGiven} \cup { [given |-> TRUE, text |-> t] : t \in texts }

\* Python truth of an option value: None and "" are false
Truthy(opt) == opt.given /\ opt.text # <<>>

CommandTexts == { <<>>, <<"show", " ", "version">> }

ConfigTexts == SeqsUpTo({"c1", ","}, MaxCfg)

Batches == SeqsUpTo({ <<"c1">>, <<"c2">> }, MaxCmds)

RequiredKeys == << "Management IP", "Username", "Password" >>

CompleteRecord ==
    [k \in {"Management IP", "Username", "Password"} |->
        IF k = "Management IP" THEN "10.0.0.1" ELSE IF k = "Username" THEN "admin" ELSE "pw"]

MissingRecord == [k \in {"Username", "Password"} |-> IF k = "Username" THEN "admin" ELSE "pw"]

Unset == [status |-> "unset", rec |-> MissingRecord]
Absent == [status |-> "absent", rec |-> MissingRecord]
Found(rec) == [status |-> "found", rec |-> rec]

NoDescriptor ==
    [device_type |-> "", host |-> "", username |-> "", password |-> "", secret |-> ""]

get_conn_info(dev_data) ==
    [device_type |-> "cisco_ios",
     host        |-> dev_data["Management IP"],
     username    |-> dev_data["Username"],
     password    |-> dev_data["Password"],
     secret      |-> dev_data["Password"]]

\* the key whose lookup raises KeyError in get_conn_info, "" if none does
MissingKey(dev_data) ==
    IF \A i \in 1..Len(RequiredKeys) : RequiredKeys[i] \in DOMAIN dev_data THEN ""
    ELSE RequiredKeys[CHOOSE i \in 1..Len(RequiredKeys) :
                         /\ RequiredKeys[i] \notin DOMAIN dev_data
                         /\ \A j \in 1..(i - 1) : RequiredKeys[j] \in DOMAIN dev_data]

\* str(e) of the exceptions the collaborators raise
InventoryErrors == {"inventory.csv missing"}
OpenErrors == {"authentication failed", "connection timed out"}
EnableErrors == {"failed to enter enable mode"}
SendErrors == {"pattern not detected"}
CloseErrors == {"socket is closed"}

NoExc == [src |-> "none", msg |-> ""]

DeviceOutput(op) == << "output of", op >>

Call(op, sid, arg, ok) == [op |-> op, sid |-> sid, arg |-> arg, ok |-> ok]

Raised(src, msg, by) == [src |-> src, msg |-> msg, caught_by |-> by]

\* where send_config / get_interface_brief return to, and who catches what they raise
ReturnPc == IF entry = "cli_main" THEN "cli_config_echo" ELSE "done"
RaisePc == IF entry = "cli_main" THEN "cli_except" ELSE "done"
Catcher == IF entry = "cli_main" THEN "cli_main" ELSE "nobody"

ConnectionFailedConfig == << "Connection failed; configuration not sent." >>
ConnectionFailedBrief == << "Connection failed; cannot retrieve interface brief." >>
ShowIpInterfaceBrief == << "show", " ", "ip", " ", "interface", " ", "brief" >>

IdleRender ==
    /\ action = "create"
    /\ interface = <<>>
    /\ ip_address = <<>>
    /\ subnet_mask = <<>>
    /\ rendered = <<>>

Init ==
    /\ entry \in {"cli_main", "send_config", "get_interface_brief"}
    /\ pc = (IF entry = "cli_main" THEN "cli_read"
             ELSE IF entry = "send_config" THEN "sc_start" ELSE "gib_start")
    /\ retpc = "none"
    /\ command \in (IF entry = "cli_main" THEN Options(CommandTexts) ELSE {NotGiven})
    /\ config \in (IF entry = "cli_main" THEN Options(ConfigTexts) ELSE {NotGiven})
    /\ commands \in (IF entry = "send_config" THEN Batches ELSE {<<>>})
    /\ device_data = Unset
    /\ conn_info = (IF entry = "cli_main" THEN NoDescriptor ELSE get_conn_info(CompleteRecord))
    /\ sessions = <<>>
    /\ cdconn = 0
    /\ conn = -1
    /\ calls = <<>>
    /\ output = <<>>
    /\ result = <<>>
    /\ echo = <<>>
    /\ exc = NoExc
    /\ raised = <<>>
    /\ IdleRender

(***************************************************************************)
(* connect_device                                                          *)
(***************************************************************************)
ConnectError(m) == << "Error connecting to device ", conn_info.host, ": ", m >>

\* conn = ConnectHandler(**device)
ConnectHandlerStep ==
    /\ pc = "cd_handler"
    /\ \/ /\ sessions' = Append(sessions, "open")
          /\ cdconn' = Len(sessions) + 1
          /\ calls' = Append(calls, Call("ConnectHandler", Len(sessions) + 1, <<>>, TRUE))
          /\ pc' = "cd_enable"
          /\ UNCHANGED << conn, echo, raised >>
       \/ \E m \in OpenErrors :
          /\ calls' = Append(calls, Call("ConnectHandler", 0, <<>>, FALSE))
          /\ raised' = Append(raised, Raised("ConnectHandler", m, "connect_device"))
          /\ echo' = Append(echo, ConnectError(m))
          /\ conn' = 0
          /\ pc' = retpc
          /\ UNCHANGED << sessions, cdconn >>
    /\ UNCHANGED << entry, retpc, command, config, commands, device_data, conn_info,
                    output, result, exc >>
    /\ UNCHANGED << renderArgs, rendered >>

EnableStep_ReturnsAnyway ==
    /\ pc = "cd_enable"
    /\ \/ /\ calls' = Append(calls, Call("enable", cdconn, <<>>, TRUE))
          /\ UNCHANGED << echo, raised >>
       \/ \E m \in EnableErrors :
          /\ calls' = Append(calls, Call("enable", cdconn, <<>>, FALSE))
          /\ raised' = Append(raised, Raised("enable", m, "connect_device"))
          /\ echo' = Append(echo, ConnectError(m))
    /\ conn' = cdconn
    /\ pc' = retpc
    /\ UNCHANGED << entry, retpc, command, config, commands, device_data, conn_info,
                    sessions, cdconn, output, result, exc >>
    /\ UNCHANGED << renderArgs, rendered >>

\* conn.enable(); return conn -- or the except clause: print, return None
EnableStep ==
    /\ pc = "cd_enable"
    /\ \/ /\ calls' = Append(calls, Call("enable", cdconn, <<>>, TRUE))
          /\ conn' = cdconn
          /\ UNCHANGED << echo, raised >>
       \/ \E m \in EnableErrors :
          /\ calls' = Append(calls, Call("enable", cdconn, <<>>, FALSE))
          /\ raised' = Append(raised, Raised("enable", m, "connect_device"))
          /\ echo' = Append(echo, ConnectError(m))
          /\ conn' = 0
    /\ pc' = retpc
    /\ UNCHANGED << entry, retpc, command, config, commands, device_data, conn_info,
                    sessions, cdconn, output, result, exc >>
    /\ UNCHANGED << renderArgs, rendered >>

(***************************************************************************)
(* send_config                                                             *)
(***************************************************************************)
\* conn = connect_device(device)
SCStart ==
    /\ pc = "sc_start"
    /\ pc' = "cd_handler"
    /\ retpc' = "sc_connected"
    /\ UNCHANGED << entry, command, config, commands, device_data, conn_info, sessions,
                    cdconn, conn, calls, output, result, echo, exc, raised >>
    /\ UNCHANGED << renderArgs, rendered >>

SCConnected_NoMessage ==
    /\ pc = "sc_connected"
    /\ IF conn = 0
       THEN /\ result' = <<>>
            /\ pc' = ReturnPc
       ELSE /\ pc' = "sc_send"
            /\ UNCHANGED result
    /\ UNCHANGED << entry, retpc, command, config, commands, device_data, conn_info,
                    sessions, cdconn, conn, calls, output, echo, exc, raised >>
    /\ UNCHANGED << renderArgs, rendered >>

\* if not conn: return "Connection failed; configuration not sent."
SCConnected ==
    /\ pc = "sc_connected"
    /\ IF conn = 0
       THEN /\ result' = ConnectionFailedConfig
            /\ pc' = ReturnPc
       ELSE /\ pc' = "sc_send"
            /\ UNCHANGED result
    /\ UNCHANGED << entry, retpc, command, config, commands, device_data, conn_info,
                    sessions, cdconn, conn, calls, output, echo, exc, raised >>
    /\ UNCHANGED << renderArgs, rendered >>

SCSend_NoExcept ==
    /\ pc = "sc_send"
    /\ \/ /\ calls' = Append(calls, Call("send_config_set", conn, commands, TRUE))
          /\ output' = DeviceOutput("send_config_set")
          /\ pc' = "sc_finally"
          /\ UNCHANGED << raised, exc >>
       \/ \E m \in SendErrors :
          /\ calls' = Append(calls, Call("send_config_set", conn, commands, FALSE))
          /\ raised' = Append(raised, Raised("send_config_set", m, Catcher))
          /\ exc' = [src |-> "send_config_set", msg |-> m]
          /\ pc' = "sc_finally"
          /\ UNCHANGED output
    /\ UNCHANGED << entry, retpc, command, config, commands, device_data, conn_info,
                    sessions, cdconn, conn, result, echo >>
    /\ UNCHANGED << renderArgs, rendered >>

SCSend_NoFinally ==
    /\ pc = "sc_send"
    /\ \/ /\ calls' = Append(calls, Call("send_config_set", conn, commands, TRUE))
          /\ output' = DeviceOutput("send_config_set")
          /\ pc' = "sc_finally"
          /\ UNCHANGED << raised, result >>
       \/ \E m \in SendErrors :
          /\ calls' = Append(calls, Call("send_config_set", conn, commands, FALSE))
          /\ raised' = Append(raised, Raised("send_config_set", m, "send_config"))
          /\ output' = << "Error sending configuration: ", m >>
          /\ result' = << "Error sending configuration: ", m >>
          /\ pc' = ReturnPc
    /\ UNCHANGED << entry, retpc, command, config, commands, device_data, conn_info,
                    sessions, cdconn, conn, echo, exc >>
    /\ UNCHANGED << renderArgs, rendered >>

\* try: output = conn.send_config_set(commands)
\* except Exception as e: output = f"Error sending configuration: {e}"
SCSend ==
    /\ pc = "sc_send"
    /\ \/ /\ calls' = Append(calls, Call("send_config_set", conn, commands, TRUE))
          /\ output' = DeviceOutput("send_config_set")
          /\ UNCHANGED raised
       \/ \E m \in SendErrors :
          /\ calls' = Append(calls, Call("send_config_set", conn, commands, FALSE))
          /\ raised' = Append(raised, Raised("send_config_set", m, "send_config"))
          /\ output' = << "Error sending configuration: ", m >>
    /\ pc' = "sc_finally"
    /\ UNCHANGED << entry, retpc, command, config, commands, device_data, conn_info,
                    sessions, cdconn, conn, result, echo, exc >>
    /\ UNCHANGED << renderArgs, rendered >>

\* finally: conn.disconnect(); then return output.  A disconnect that raises
\* replaces whatever was in flight and leaves the function; what it did to the
\* session before raising is not known.
SCFinally ==
    /\ pc = "sc_finally"
    /\ \/ /\ calls' = Append(calls, Call("disconnect", conn, <<>>, TRUE))
          /\ sessions' = [sessions EXCEPT ![conn] = "closed"]
          /\ IF exc = NoExc
             THEN /\ result' = output
                  /\ pc' = ReturnPc
             ELSE /\ pc' = RaisePc
                  /\ UNCHANGED result
          /\ UNCHANGED << exc, raised >>
       \/ \E m \in CloseErrors, st \in {"open", "closed"} :
          /\ calls' = Append(calls, Call("disconnect", conn, <<>>, FALSE))
          /\ sessions' = [sessions EXCEPT ![conn] = st]
          /\ raised' = Append(raised, Raised("disconnect", m, Catcher))
          /\ exc' = [src |-> "disconnect", msg |-> m]
          /\ pc' = RaisePc
          /\ UNCHANGED result
    /\ UNCHANGED << entry, retpc, command, config, commands, device_data, conn_info,
                    cdconn, conn, output, echo >>
    /\ UNCHANGED << renderArgs, rendered >>

(***************************************************************************)
(* get_interface_brief                                                     *)
(***************************************************************************)
\* conn = connect_device(device)
GIBStart ==
    /\ pc = "gib_start"
    /\ pc' = "cd_handler"
    /\ retpc' = "gib_connected"
    /\ UNCHANGED << entry, command, config, commands, device_data, conn_info, sessions,
                    cdconn, conn, calls, output, result, echo, exc, raised >>
    /\ UNCHANGED << renderArgs, rendered >>

\* if not conn: return "Connection failed; cannot retrieve interface brief."
GIBConnected ==
    /\ pc = "gib_connected"
    /\ IF conn = 0
       THEN /\ result' = ConnectionFailedBrief
            /\ pc' = "done"
       ELSE /\ pc' = "gib_send"
            /\ UNCHANGED result
    /\ UNCHANGED << entry, retpc, command, config, commands, device_data, conn_info,
                    sessions, cdconn, conn, calls, output, echo, exc, raised >>
    /\ UNCHANGED << renderArgs, rendered >>

\* try: output = conn.send_command("show ip interface brief")
\* except Exception as e: output = f"Error retrieving interface brief: {e}"
GIBSend ==
    /\ pc = "gib_send"
    /\ \/ /\ calls' = Append(calls, Call("send_command", conn, <<ShowIpInterfaceBrief>>, TRUE))
          /\ output' = DeviceOutput("send_command")
          /\ UNCHANGED raised
       \/ \E m \in SendErrors :
          /\ calls' = Append(calls, Call("send_command", conn, <<ShowIpInterfaceBrief>>, FALSE))
          /\ raised' = Append(raised, Raised("send_command", m, "get_interface_brief"))
          /\ output' = << "Error retrieving interface brief: ", m >>
    /\ pc' = "gib_finally"
    /\ UNCHANGED << entry, retpc, command, config, commands, device_data, conn_info,
                    sessions, cdconn, conn, result, echo, exc >>
    /\ UNCHANGED << renderArgs, rendered >>

\* finally: conn.disconnect(); then return output
GIBFinally ==
    /\ pc = "gib_finally"
    /\ \/ /\ calls' = Append(calls, Call("disconnect", conn, <<>>, TRUE))
          /\ sessions' = [sessions EXCEPT ![conn] = "closed"]
          /\ result' = output
          /\ UNCHANGED << exc, raised >>
       \/ \E m \in CloseErrors, st \in {"open", "closed"} :
          /\ calls' = Append(calls, Call("disconnect", conn, <<>>, FALSE))
          /\ sessions' = [sessions EXCEPT ![conn] = st]
          /\ raised' = Append(raised, Raised("disconnect", m, "nobody"))
          /\ exc' = [src |-> "disconnect", msg |-> m]
          /\ UNCHANGED result
    /\ pc' = "done"
    /\ UNCHANGED << entry, retpc, command, config, commands, device_data, conn_info,
                    cdconn, conn, output, echo >>
    /\ UNCHANGED << renderArgs, rendered >>

(***************************************************************************)
(* cli_main                                                                *)
(***************************************************************************)
NotFoundMessage == << "Device ", device_name, " not found in inventory" >>
UsageMessage == << "Please specify --command or --config option" >>

\* inventory = read_inventory("inventory.csv")
ReadInventory ==
    /\ pc = "cli_read"
    /\ \/ /\ pc' = "cli_lookup"
          /\ UNCHANGED << exc, raised >>
       \/ \E m \in InventoryErrors :
          /\ exc' = [src |-> "read_inventory", msg |-> m]
          /\ raised' = Append(raised, Raised("read_inventory", m, "cli_main"))
          /\ pc' = "cli_except"
    /\ UNCHANGED << entry, retpc, command, config, commands, device_data, conn_info,
                    sessions, cdconn, conn, calls, output, result, echo >>
    /\ UNCHANGED << renderArgs, rendered >>

GetDeviceData_NoReturn ==
    /\ pc = "cli_lookup"
    /\ \E d \in {Absent, Found(CompleteRecord), Found(MissingRecord)} :
          /\ device_data' = d
          /\ IF d.status = "absent"
             THEN /\ echo' = Append(echo, NotFoundMessage)
                  /\ conn_info' = get_conn_info(CompleteRecord)
                  /\ pc' = "cli_dispatch"
             ELSE /\ pc' = "cli_conninfo"
                  /\ UNCHANGED << echo, conn_info >>
    /\ UNCHANGED << entry, retpc, command, config, commands, sessions, cdconn,
                    conn, calls, output, result, exc, raised >>
    /\ UNCHANGED << renderArgs, rendered >>

\* device_data = get_device_data(inventory, device_name)
\* if not device_data: click.echo(...not found...); return
GetDeviceData ==
    /\ pc = "cli_lookup"
    /\ \E d \in {Absent, Found(CompleteRecord), Found(MissingRecord)} :
          /\ device_data' = d
          /\ IF d.status = "absent"
             THEN /\ echo' = Append(echo, NotFoundMessage)
                  /\ pc' = "done"
             ELSE /\ pc' = "cli_conninfo"
                  /\ UNCHANGED echo
    /\ UNCHANGED << entry, retpc, command, config, commands, conn_info, sessions, cdconn,
                    conn, calls, output, result, exc, raised >>
    /\ UNCHANGED << renderArgs, rendered >>

\* conn_info = get_conn_info(device_data); a missing key raises KeyError, whose
\* str() is the quoted key
GetConnInfo ==
    /\ pc = "cli_conninfo"
    /\ IF MissingKey(device_data.rec) = ""
       THEN /\ conn_info' = get_conn_info(device_data.rec)
            /\ pc' = "cli_dispatch"
            /\ UNCHANGED << exc, raised >>
       ELSE /\ exc' = [src |-> "get_conn_info", msg |-> MissingKey(device_data.rec)]
            /\ raised' = Append(raised,
                   Raised("get_conn_info", MissingKey(device_data.rec), "cli_main"))
            /\ pc' = "cli_except"
            /\ UNCHANGED conn_info
    /\ UNCHANGED << entry, retpc, command, config, commands, device_data, sessions,
                    cdconn, conn, calls, output, result, echo >>
    /\ UNCHANGED << renderArgs, rendered >>

\* if command: connection = connect_device(conn_info)
\* elif config: send_config(conn_info, config.split(','))
\* else: click.echo("Please specify --command or --config option")
CliDispatch ==
    /\ pc = "cli_dispatch"
    /\ IF Truthy(command)
       THEN /\ pc' = "cd_handler"
            /\ retpc' = "cli_connected"
            /\ UNCHANGED << commands, echo >>
       ELSE IF Truthy(config)
       THEN /\ commands' = Split(config.text)
            /\ pc' = "sc_start"
            /\ UNCHANGED << retpc, echo >>
       ELSE /\ echo' = Append(echo, UsageMessage)
            /\ pc' = "done"
            /\ UNCHANGED << retpc, commands >>
    /\ UNCHANGED << entry, command, config, device_data, conn_info, sessions, cdconn,
                    conn, calls, output, result, exc, raised >>
    /\ UNCHANGED << renderArgs, rendered >>

CliConnected_DisconnectFirst ==
    /\ pc = "cli_connected"
    /\ IF conn = 0
       THEN /\ echo' = Append(echo, << "Failed to connect to ", device_name >>)
            /\ pc' = "done"
            /\ UNCHANGED << calls, sessions >>
       ELSE /\ calls' = Append(calls, Call("disconnect", conn, <<>>, TRUE))
            /\ sessions' = [sessions EXCEPT ![conn] = "closed"]
            /\ pc' = "cli_send"
            /\ UNCHANGED echo
    /\ UNCHANGED << entry, retpc, command, config, commands, device_data, conn_info,
                    cdconn, conn, output, result, exc, raised >>
    /\ UNCHANGED << renderArgs, rendered >>

\* if not connection: click.echo(f"Failed to connect to {device_name}"); return
CliConnected ==
    /\ pc = "cli_connected"
    /\ IF conn = 0
       THEN /\ echo' = Append(echo, << "Failed to connect to ", device_name >>)
            /\ pc' = "done"
       ELSE /\ pc' = "cli_send"
            /\ UNCHANGED echo
    /\ UNCHANGED << entry, retpc, command, config, commands, device_data, conn_info,
                    sessions, cdconn, conn, calls, output, result, exc, raised >>
    /\ UNCHANGED << renderArgs, rendered >>

\* output = send_command(connection, command); the two click.echo lines.
\* send_command: a true connection sends, otherwise "No connection available".
CliSendCommand ==
    /\ pc = "cli_send"
    /\ IF conn > 0
       THEN \/ /\ calls' = Append(calls, Call("send_command", conn, <<command.text>>, TRUE))
               /\ output' = DeviceOutput("send_command")
               /\ echo' = echo \o << << "Output from ", device_name, ":" >>,
                                     DeviceOutput("send_command") >>
               /\ pc' = "cli_disconnect"
               /\ UNCHANGED << exc, raised >>
            \/ \E m \in SendErrors :
               /\ calls' = Append(calls, Call("send_command", conn, <<command.text>>, FALSE))
               /\ exc' = [src |-> "send_command", msg |-> m]
               /\ raised' = Append(raised, Raised("send_command", m, "cli_main"))
               /\ pc' = "cli_except"
               /\ UNCHANGED << output, echo >>
       ELSE /\ output' = << "No connection available" >>
            /\ echo' = echo \o << << "Output from ", device_name, ":" >>,
                                  << "No connection available" >> >>
            /\ pc' = "cli_disconnect"
            /\ UNCHANGED << calls, exc, raised >>
    /\ UNCHANGED << entry, retpc, command, config, commands, device_data, conn_info,
                    sessions, cdconn, conn, result >>
    /\ UNCHANGED << renderArgs, rendered >>

\* connection.disconnect()
CliDisconnect ==
    /\ pc = "cli_disconnect"
    /\ \/ /\ calls' = Append(calls, Call("disconnect", conn, <<>>, TRUE))
          /\ sessions' = [sessions EXCEPT ![conn] = "closed"]
          /\ pc' = "done"
          /\ UNCHANGED << exc, raised >>
       \/ \E m \in CloseErrors, st \in {"open", "closed"} :
          /\ calls' = Append(calls, Call("disconnect", conn, <<>>, FALSE))
          /\ sessions' = [sessions EXCEPT ![conn] = st]
          /\ exc' = [src |-> "disconnect", msg |-> m]
          /\ raised' = Append(raised, Raised("disconnect", m, "cli_main"))
          /\ pc' = "cli_except"
    /\ UNCHANGED << entry, retpc, command, config, commands, device_data, conn_info,
                    cdconn, conn, output, result, echo >>
    /\ UNCHANGED << renderArgs, rendered >>

\* output = send_config(...) has returned: the two click.echo lines
CliConfigEcho ==
    /\ pc = "cli_config_echo"
    /\ output' = result
    /\ echo' = echo \o << << "Configuration output from ", device_name, ":" >>, result >>
    /\ pc' = "done"
    /\ UNCHANGED << entry, retpc, command, config, commands, device_data, conn_info,
                    sessions, cdconn, conn, calls, result, exc, raised >>
    /\ UNCHANGED << renderArgs, rendered >>

CliExcept_Silent ==
    /\ pc = "cli_except"
    /\ pc' = "done"
    /\ UNCHANGED << entry, retpc, command, config, commands, device_data, conn_info,
                    sessions, cdconn, conn, calls, output, result, echo, exc, raised >>
    /\ UNCHANGED << renderArgs, rendered >>

\* except Exception as e: click.echo(f"Error: {e}")
CliExcept ==
    /\ pc = "cli_except"
    /\ echo' = Append(echo, << "Error: ", exc.msg >>)
    /\ exc' = NoExc
    /\ pc' = "done"
    /\ UNCHANGED << entry, retpc, command, config, commands, device_data, conn_info,
                    sessions, cdconn, conn, calls, output, result, raised >>
    /\ UNCHANGED << renderArgs, rendered >>

(***************************************************************************)
(* The session flow: one call of cli_main, send_config or                  *)
(* get_interface_brief, run to its end                                     *)
(***************************************************************************)
Next ==
    \/ ReadInventory
    \/ GetDeviceData
    \/ GetConnInfo
    \/ CliDispatch
    \/ ConnectHandlerStep
    \/ EnableStep
    \/ CliConnected
    \/ CliSendCommand
    \/ CliDisconnect
    \/ CliConfigEcho
    \/ CliExcept
    \/ SCStart
    \/ SCConnected
    \/ SCSend
    \/ SCFinally
    \/ GIBStart
    \/ GIBConnected
    \/ GIBSend
    \/ GIBFinally

Spec == Init /\ [][Next]_vars

(***************************************************************************)
(* The renderer: one call of render_interface_config on every argument     *)
(* tuple up to MaxLen characters drawn from text, blank and line break     *)
(***************************************************************************)
ValueChars == {"x", " ", "\n"}

Values == SeqsUpTo(ValueChars, MaxLen)

Actions == {"create", "delete", "remove"}

InitRender ==
    /\ entry = "render"
    /\ pc = "render_call"
    /\ retpc = "none"
    /\ command = NotGiven
    /\ config = NotGiven
    /\ commands = <<>>
    /\ device_data = Unset
    /\ conn_info = NoDescriptor
    /\ sessions = <<>>
    /\ cdconn = 0
    /\ conn = -1
    /\ calls = <<>>
    /\ output = <<>>
    /\ result = <<>>
    /\ echo = <<>>
    /\ exc = NoExc
    /\ raised = <<>>
    /\ action \in Actions
    /\ interface \in Values
    /\ ip_address \in Values
    /\ subnet_mask \in Values
    /\ rendered = <<>>

RenderCall ==
    /\ pc = "render_call"
    /\ rendered' = render_interface_config(action, interface, ip_address, subnet_mask)
    /\ pc' = "done"
    /\ UNCHANGED sessionVars
    /\ UNCHANGED renderArgs

NextRender == RenderCall

SpecRender == InitRender /\ [][NextRender]_vars

(***************************************************************************)
(* Observations on the call log                                            *)
(***************************************************************************)
CallsOf(ops) == { i \in DOMAIN calls : calls[i].op \in ops }

Disconnects(sid) == Cardinality({ i \in CallsOf({"disconnect"}) : calls[i].sid = sid })

SendOps == {"send_command", "send_config_set"}

OpenCount == Cardinality({ i \in DOMAIN sessions : sessions[i] = "open" })

\* the run is one call of send_config / get_interface_brief, made directly or
\* by cli_main, and that call is over
LifecycleCallOver ==
    /\ retpc \in {"sc_connected", "gib_connected"}
    /\ conn # -1
    /\ pc \in {"done", "cli_config_echo", "cli_except"}

SendRaised == \E i \in CallsOf(SendOps) : ~calls[i].ok

DisconnectRaised == \E i \in CallsOf({"disconnect"}) : ~calls[i].ok

CliOver == entry = "cli_main" /\ pc = "done"

\* connect_device has just returned to its caller
ConnectReturned == pc \in {"cli_connected", "sc_connected", "gib_connected"}

\* the run was one call of fn whose ConnectHandler raised, and it is over
OpenFailedIn(fn) ==
    /\ entry = fn
    /\ pc = "done"
    /\ calls # <<>>
    /\ calls[1].op = "ConnectHandler"
    /\ ~calls[1].ok

\* the error sources claim C8 lists
ListedSources ==
    {"read_inventory", "get_conn_info", "send_command", "send_config_set", "disconnect"}

Printed(line) == \E i \in DOMAIN echo : echo[i] = line

\* the lines claim C9 writes out, with the values put in as they are
ExpectedLines(act, ifc, ip, mask) ==
    IF act = "create"
    THEN << << "interface", " " >> \o ifc,
            << "ip", " ", "address", " " >> \o ip \o << " " >> \o mask,
            << "no", " ", "shutdown" >> >>
    ELSE << << "interface", " " >> \o ifc,
            << "no", " ", "ip", " ", "address" >>,
            << "shutdown" >> >>

RenderOver == entry = "render" /\ pc = "done"

HasLineBreak(s) == \E i \in 1..Len(s) : IsLineBreak(s[i])

EndsClean(s) == s # <<>> /\ ~IsSpace(s[Len(s)])

\* the values the selected stanza uses contain no line break, and the values a
\* line ends with (interface, and subnet_mask for "create") are not empty and
\* do not end in whitespace
PlainValues ==
    /\ ~HasLineBreak(interface)
    /\ EndsClean(interface)
    /\ action = "create" =>
          /\ ~HasLineBreak(ip_address)
          /\ ~HasLineBreak(subnet_mask)
          /\ EndsClean(subnet_mask)

(***************************************************************************)
(* C1: when send_config or get_interface_brief is over, disconnect was     *)
(* invoked exactly once on the session connect_device returned, whether    *)
(* the send returned or raised, and not at all if it returned None.        *)
(***************************************************************************)
Thm_C1_DisconnectOnceOrNever ==
    LifecycleCallOver =>
        IF conn > 0
        THEN /\ Disconnects(conn) = 1
             /\ Cardinality(CallsOf({"disconnect"})) = 1
             /\ Cardinality(CallsOf(SendOps)) = 1
             /\ \A i \in CallsOf(SendOps), j \in CallsOf({"disconnect"}) : i < j
        ELSE CallsOf({"disconnect"}) = {}

Wit_C1_SendRaisedThenDisconnected ==
    /\ entry = "send_config"
    /\ pc = "done"
    /\ conn > 0
    /\ SendRaised
    /\ Disconnects(conn) = 1

(***************************************************************************)
(* C2: at the end of every cli_main invocation, a session that             *)
(* connect_device returned has had disconnect invoked exactly once, also   *)
(* when the send raised in the --command branch.                           *)
(***************************************************************************)
Cex_C2_CliClosesOnEveryPath ==
    (CliOver /\ conn > 0) => Disconnects(conn) = 1

(***************************************************************************)
(* C3: in every state of a cli_main invocation at most one session is open *)
(* and no command is sent on a session after disconnect was called on it.  *)
(***************************************************************************)
Thm_C3_OneSessionNoUseAfterClose ==
    entry = "cli_main" =>
        /\ OpenCount <= 1
        /\ Len(sessions) <= 1
        /\ \A i \in CallsOf({"disconnect"}), j \in CallsOf(SendOps) :
               calls[i].sid = calls[j].sid => j < i

Wit_C3_SentThenClosed ==
    /\ CliOver
    /\ Truthy(command)
    /\ \E i \in CallsOf(SendOps), j \in CallsOf({"disconnect"}) : i < j
    /\ OpenCount = 0

Cex_C5_ResultContainsReason ==
    OpenFailedIn("send_config") => Contains(result, raised[1].msg)

\* C5 as amended: the returned string is the fixed text "Connection failed;
\* configuration not sent."; the failure reason is in the line connect_device
\* printed and not in the returned string.
Thm_C5_FixedTextReasonPrinted ==
    OpenFailedIn("send_config") =>
        /\ result = ConnectionFailedConfig
        /\ ~Contains(result, raised[1].msg)
        /\ echo = << ConnectError(raised[1].msg) >>
        /\ Contains(echo[1], raised[1].msg)
        /\ exc = NoExc

Wit_C5_OpenFailed ==
    /\ OpenFailedIn("send_config")
    /\ raised[1].msg = "connection timed out"
    /\ result = ConnectionFailedConfig

(***************************************************************************)
(* C6: cli_main with a device name the inventory lookup does not return    *)
(* prints the not-found message and makes no session call at all, whatever *)
(* --command and --config are.                                             *)
(***************************************************************************)
Thm_C6_NotFoundNoSession ==
    (entry = "cli_main" /\ device_data.status = "absent") =>
        /\ pc = "done"
        /\ echo = << NotFoundMessage >>
        /\ calls = <<>>
        /\ sessions = <<>>
        /\ conn = -1
        /\ exc = NoExc

Wit_C6_NotFoundWithBothOptions ==
    /\ CliOver
    /\ device_data.status = "absent"
    /\ Truthy(command)
    /\ Truthy(config)
    /\ echo = << NotFoundMessage >>

(***************************************************************************)
(* C7: connect_device never raises: no exception of ConnectHandler or      *)
(* enable is ever in flight; it returns None on every failure of either,   *)
(* after which its caller sends nothing, and it returns a session, open,   *)
(* only if both succeeded.                                                 *)
(***************************************************************************)
Thm_C7_ConnectNeverRaises ==
    /\ exc.src \notin {"ConnectHandler", "enable"}
    /\ ConnectReturned =>
          /\ conn >= 0
          /\ conn > 0 <=> /\ Len(calls) = 2
                          /\ calls[1].op = "ConnectHandler" /\ calls[1].ok
                          /\ calls[2].op = "enable" /\ calls[2].ok
          /\ conn > 0 => /\ sessions[conn] = "open"
                         /\ calls[1].sid = conn
          /\ conn = 0 => /\ ~calls[Len(calls)].ok
                         /\ raised[Len(raised)].caught_by = "connect_device"
    /\ conn = 0 => /\ CallsOf(SendOps) = {}
                   /\ CallsOf({"disconnect"}) = {}

Wit_C7_ElevationFailed ==
    /\ ConnectReturned
    /\ conn = 0
    /\ Len(calls) = 2
    /\ calls[1].ok
    /\ ~calls[2].ok

Cex_C10_NoneLeavesNothingOpen ==
    (ConnectReturned /\ conn = 0) =>
        /\ OpenCount = 0
        /\ \A i \in DOMAIN sessions : Disconnects(i) >= 1

(***************************************************************************)
(* C9: render_interface_config returns exactly                             *)
(* ["interface <interface>", "ip address <ip_address> <subnet_mask>",      *)
(* "no shutdown"] for "create" and ["interface <interface>",               *)
(* "no ip address", "shutdown"] for every other action.                    *)
(***************************************************************************)
Cex_C9_ExactLinesForEveryValue ==
    RenderOver => rendered = ExpectedLines(action, interface, ip_address, subnet_mask)

\* C9 as amended: the result is always the non-empty, whitespace-trimmed lines
\* of the substituted stanza in order, and for every action but "create" it
\* does not depend on ip_address and subnet_mask; it is exactly the three
\* lines of the claim when the values are plain (PlainValues), and only then.
Thm_C9_ExactLinesForPlainValues ==
    RenderOver =>
        /\ PlainValues <=>
              rendered = ExpectedLines(action, interface, ip_address, subnet_mask)
        /\ \A i \in DOMAIN rendered :
              /\ rendered[i] # <<>>
              /\ ~IsSpace(rendered[i][1])
              /\ ~IsSpace(rendered[i][Len(rendered[i])])
              /\ ~HasLineBreak(rendered[i])
        /\ action # "create" =>
              /\ rendered = render_interface_config("delete", interface, <<>>, <<>>)
              /\ rendered[Len(rendered)] = << "shutdown" >>
        /\ action = "create" => rendered[Len(rendered)] = << "no", " ", "shutdown" >>
        /\ rendered[1][1] = "interface"

Wit_C9_CreateRendered ==
    /\ RenderOver
    /\ action = "create"
    /\ interface = << "x", "x" >>
    /\ ip_address = << "x" >>
    /\ subnet_mask = << "x", "x" >>
    /\ rendered = << << "interface", " ", "x", "x" >>,
                     << "ip", " ", "address", " ", "x", " ", "x", "x" >>,
                     << "no", " ", "shutdown" >> >>

====
